---------------------------- MODULE Spec2Model ----------------------------
(***************************************************************************)
(* A model of src/app.py: the DSSS audio watermark embedder                *)
(* (embed_watermark_dsss), the cached per-video pipeline                   *)
(* (process_video_to_bytes) and the Streamlit session driver (main).       *)
(*                                                                         *)
(* Two specifications share the variables:                                 *)
(*   SpecCodec  one call of embed_watermark_dsss on a bounded family of    *)
(*              WAV inputs and identifiers;                                *)
(*   Spec       one browser session of main() with the process-wide        *)
(*              st.cache_data cache and the uploads/ folder.               *)
(*                                                                         *)
(* Arithmetic that the code performs in float64 is carried out exactly on  *)
(* integers scaled by AlphaDen (alpha = 1/AlphaDen): every float value the *)
(* code truncates is s + e*m/100 with integers s, e, m, whose distance to  *)
(* the nearest integer is 0 or at least 1/100, far above float64 error;    *)
(* where it is 0, m is a multiple of 100 and 0.01*m is exact in float64    *)
(* for every such m up to 32768.                                           *)
(***************************************************************************)
EXTENDS Integers, Sequences, FiniteSets, TLC

VARIABLES
    \* ---- embed_watermark_dsss (one call) ----
    input_wav,          \* the WAV file read at lines 37-42
    watermark_text,     \* the decimal string passed as watermark_text
    output_wav,         \* the WAV file written at lines 91-93, or NoFile
    embed_result,       \* "pending", "ok", or the exception raised
    \* ---- main(): st.session_state ----
    users,              \* st.session_state.users
    logged_in_user,     \* st.session_state.logged_in_user (None or a name)
    last_uploaded_video,\* st.session_state.last_uploaded_video
    downloads,          \* st.session_state[download_key] entries
    \* ---- process-wide state ----
    uploads,            \* files of UPLOAD_FOLDER: name -> content
    cache,              \* st.cache_data store of process_video_to_bytes
    \* ---- a running process_video_to_bytes call ----
    pc,                 \* "idle" or the pipeline step about to run
    request,            \* arguments and temp files of the running call
    steps,              \* pipeline steps executed by the latest call
    outcome,            \* what the latest button handler did
    failed_keys         \* (video, user_id) pairs whose pipeline run failed

codec_vars == <<input_wav, watermark_text, output_wav, embed_result>>
session_vars == <<users, logged_in_user, last_uploaded_video, downloads,
                  uploads, cache, pc, request, steps, outcome, failed_keys>>
vars == <<input_wav, watermark_text, output_wav, embed_result,
          users, logged_in_user, last_uploaded_video, downloads,
          uploads, cache, pc, request, steps, outcome, failed_keys>>

---------------------------------------------------------------------------
(* Bounds of the model                                                     *)

\* identifiers 0..MaxId are passed to the embedder
MaxId == 257
\* sample counts within LenSlack of 100 * (number of chips) are explored
LenSlack == 1
\* usernames 1..NumUsernames can be typed into the sidebar
NumUsernames == 2
\* video contents 1..NumContents can be uploaded
NumContents == 2

---------------------------------------------------------------------------
(* Program constants                                                       *)

MinSpreadingFactor == 100
AlphaDen == 100
Int16Min == -32768
Int16Max == 32767
IdBitWidth == 8

\* Python's None where video bytes are expected, and where a name is
None == [video |-> 0, audio |-> 0, wm |-> 0]
NoUser == 0
\* a path at which no WAV file exists
NoFile == [sampwidth |-> 0, nbytes |-> 0, samples |-> << >>]

---------------------------------------------------------------------------
(* Generic helpers                                                         *)

Abs(x) == IF x < 0 THEN -x ELSE x

MaxOf(S) == CHOOSE x \in S : \A y \in S : y <= x

\* Python str(n) for n >= 0: the decimal digits, most significant first
RECURSIVE str(_)
str(n) == IF n < 10 THEN <<n>> ELSE Append(str(n \div 10), n % 10)

\* Python int(text) for a string of decimal digits
RECURSIVE int(_)
int(text) ==
    IF Len(text) = 0 THEN 0
    ELSE 10 * int(SubSeq(text, 1, Len(text) - 1)) + text[Len(text)]

\* binary digits of n, most significant first, no leading zeros ("" for 0)
RECURSIVE bin(_)
bin(n) == IF n = 0 THEN <<>> ELSE Append(bin(n \div 2), n % 2)

\* Python format(n, '08b'): zero-padded to a MINIMUM width of 8
format_08b(n) ==
    LET b == IF n = 0 THEN <<0>> ELSE bin(n)
    IN  IF Len(b) >= IdBitWidth THEN b
        ELSE [i \in 1..(IdBitWidth - Len(b)) |-> 0] \o b

---------------------------------------------------------------------------
(* generate_pn_sequence                                                    *)

\* np.random.seed(42); np.random.randint(0, 2, n): the low bit of successive
\* MT19937 outputs after init_genrand(42).  The draws for a longer n extend
\* those for a shorter one, so one table serves every length used here.
randint_seed42 ==
    <<
      0, 1, 0, 0, 0, 1, 0, 0, 0, 1, 0, 0, 0, 0, 1, 0, 1, 1, 1, 0, 1, 0, 1, 1, 1, 1, 1, 1, 1, 1, 0, 0,
      1, 1, 1, 0, 1, 0, 0, 0, 0, 0, 1, 1, 1, 1, 1, 0, 1, 1, 0, 1, 0, 1, 0, 1, 1, 0, 0, 0, 0, 0, 0, 0,
      0, 1, 1, 0, 1, 1, 1, 1, 0, 1, 0, 1, 1, 1, 0, 1, 0, 1, 0, 1, 0, 0, 1, 0, 1, 1, 1, 1, 1, 1, 1, 1,
      1, 1, 1, 0, 0, 1, 1, 1, 1, 1, 1, 1, 1, 0, 1, 0, 1, 1, 0, 1, 0, 1, 1, 0, 1, 0, 1, 0, 0, 1, 1, 0,
      1, 1, 1, 0, 0, 0, 0, 0, 0, 0, 0, 0, 1, 0, 1, 1, 1, 0, 0, 0, 0, 1, 0, 0, 0, 0, 0, 1, 0, 1, 0, 1,
      0, 0, 1, 1, 1, 0, 1, 0, 0, 1, 1, 0, 0, 1, 1, 1, 0, 0, 0, 0, 0, 0, 1, 0, 0, 0, 1, 0, 0, 1, 0, 0,
      0, 0, 0, 1, 1, 1, 0, 0, 0, 1, 0, 0, 1, 0, 1, 1, 1, 0, 0, 0, 0, 0, 0, 0, 1, 0, 1, 0, 0, 0, 1, 1,
      1, 1, 0, 1, 0, 0, 1, 1, 1, 1, 1, 1, 1, 1, 0, 1, 1, 0, 1, 0, 0, 1, 0, 0, 0, 0, 1, 0, 1, 0, 0, 0,
      0, 1, 1, 0, 0, 1, 0, 0, 0, 1, 1, 1, 0, 0, 1, 1, 1, 1, 0, 1, 0, 1, 0, 1, 1, 1, 1, 0, 1, 0, 0, 0,
      0, 1, 0, 0, 0, 1, 1, 1, 1, 0, 0, 1, 0, 0, 0, 1, 1, 0, 1, 1, 1, 1, 1, 0, 1, 0, 0, 1, 0, 0, 0, 1,
      1, 0, 1, 1, 1, 1, 0, 0, 1, 1, 0, 0, 1, 0, 1, 1, 0, 0, 1, 1, 0, 1, 0, 1, 0, 0, 0, 1, 1, 0, 1, 0,
      0, 1, 1, 0, 1, 1, 0, 0, 1, 0, 0, 1, 0, 0, 1, 1, 0, 0, 1, 1, 1, 1, 0, 1, 1, 0, 1, 0, 1, 1, 1, 0,
      0, 1, 0, 0, 0, 0, 0, 0, 1, 1, 0, 1, 1, 1, 1, 0, 1, 1, 0, 0, 1, 1, 1, 1, 1, 1, 0, 1, 1, 0, 0, 0,
      0, 1, 1, 1, 1, 1, 1, 0, 1, 0, 0, 1, 0, 1, 0, 1, 0, 1, 1, 1, 1, 1, 0, 0, 0, 1, 0, 1, 1, 0, 0, 1,
      0, 1, 1, 1, 1, 1, 0, 0, 1, 1, 0, 0, 1, 0, 1, 0, 1, 0, 1, 0, 0, 1, 0, 1, 0, 1, 0, 1, 0, 1, 0, 1,
      1, 1, 0, 1, 0, 1, 0, 1, 0, 0, 1, 0, 0, 1, 0, 0, 0, 1, 0, 1, 0, 0, 0, 1, 0, 0, 1, 0, 1, 1, 0, 1,
      0, 1, 1, 0, 1, 1, 1, 1, 1, 0, 1, 0, 1, 0, 0, 1, 1, 1, 0, 1, 0, 0, 0, 1, 1, 0, 0, 1, 0, 1, 0, 1,
      0, 1, 0, 1, 1, 0, 0, 1, 0, 1, 0, 1, 1, 1, 1, 1, 1, 0, 0, 0, 1, 1, 1, 1, 0, 0, 1, 0, 0, 1, 0, 1,
      0, 1, 1, 1, 1, 0, 1, 1, 1, 0, 1, 0, 1, 0, 0, 1, 0, 1, 1, 1, 0, 0, 1, 1, 0, 1, 1, 1, 0, 0, 0, 1,
      1, 1, 0, 1, 1, 1, 1, 0, 0, 1, 0, 0, 1, 1, 0, 1, 0, 1, 0, 1, 0, 0, 0, 1, 0, 0, 1, 1, 0, 0, 1, 1,
      1, 1, 1, 0, 1, 0, 0, 0, 1, 0, 0, 1, 0, 0, 1, 0, 0, 0, 1, 1, 1, 0, 0, 1, 0, 0, 1, 1, 0, 0, 0, 1,
      1, 1, 1, 0, 1, 1, 1, 1, 1, 0, 0, 1, 0, 1, 1, 0, 0, 1, 1, 1, 0, 1, 1, 1, 0, 1, 1, 0, 1, 1, 0, 1,
      0, 0, 1, 1, 1, 1, 0, 1, 0, 1, 1, 1, 0, 1, 1, 1, 1, 0, 1, 0, 0, 0, 0, 0, 0, 1, 0, 0, 0, 1, 1, 0,
      1, 0, 0, 1, 0, 1, 1, 0, 0, 1, 0, 0, 0, 1, 1, 0, 1, 1, 1, 1, 1, 0, 0, 0, 1, 1, 0, 1, 0, 0, 0, 1,
      1, 0, 0, 0, 0, 1, 1, 0, 0, 1, 1, 0, 0, 0, 1, 1, 1, 0, 0, 1, 1, 0, 1, 1, 0, 1, 0, 0, 0, 0, 0, 0,
      0, 1, 0, 0, 1, 1, 1, 0, 1, 0, 0, 0, 0, 1, 1, 0, 0, 0, 1, 0, 0, 1, 1, 0, 1, 1, 0, 1, 0, 1, 0, 0,
      0, 1, 0, 1, 0, 0, 1, 0, 0, 1, 0, 0, 0, 0, 1, 1, 0, 1, 0, 1, 0, 0, 0, 0, 0, 0, 1, 0, 1, 0, 1, 1,
      1, 0, 0, 1, 0, 1, 0, 1, 1, 0, 1, 0, 1, 1, 0, 0, 0, 1, 0, 1, 1, 0, 0, 1, 1, 0, 0, 0, 0, 0, 1, 1,
      1, 1, 0, 0, 0, 1, 1, 0, 0, 1, 1, 0, 0, 1, 0, 0, 0, 1, 1, 1, 1, 1, 1, 1, 0, 0, 0, 0, 0, 0, 0, 1,
      1, 0, 0, 1, 0, 0, 1, 0, 1, 0, 1, 1, 1, 0, 1, 0, 0, 0, 0, 1, 1, 0, 0, 1, 0, 1, 0, 0, 1, 0, 1, 0,
      0, 0, 1, 0, 0, 0, 0, 1, 1, 0, 1, 0, 0, 0, 1, 1, 1, 1, 1, 1, 1, 1, 1, 0, 1, 1, 1, 1, 1, 1, 1, 1,
      1, 1, 1, 0, 0, 1, 1, 0, 1, 0, 0, 0, 0, 0, 1, 0, 1, 1, 0, 0, 1, 0, 0, 1, 1, 0, 1, 0, 0, 0, 1, 1 >>

generate_pn_sequence(chip_rate, duration_samples) ==
    [n \in 1..duration_samples |-> randint_seed42[n] * 2 - 1]

---------------------------------------------------------------------------
(* embed_watermark_dsss                                                    *)

\* np.frombuffer(frames, dtype=np.int16) raises ValueError unless the byte
\* count is a multiple of the element size (2); sampwidth is never looked at
frombuffer_raises(w) == w.nbytes % 2 # 0

\* The int16 words the frame bytes are viewed as.  The inputs explored hold
\* one value (fill) everywhere and another (peak) in the first word.
samples_of(w) ==
    [n \in 1..(w.nbytes \div 2) |-> IF n = 1 THEN w.peak ELSE w.fill]

signature_bit == 1

\* [int(b) * 2 - 1 for b in format(int(watermark_text), '08b')]
user_id_bits(text) ==
    LET b == format_08b(int(text)) IN [i \in 1..Len(b) |-> b[i] * 2 - 1]

\* np.concatenate([[signature_bit * 2 - 1], user_id_bits])
payload(text) == <<signature_bit * 2 - 1>> \o user_id_bits(text)

\* int(np.floor(len(samples) / len(payload)))
spreading_factor(nsamples, nchips) == nsamples \div nchips

\* the threshold comparison written as <= (a gain of exactly 100 refused)
too_short_inclusive(nsamples, text) ==
    spreading_factor(nsamples, Len(payload(text))) <= MinSpreadingFactor

\* if spreading_factor < 100: raise ValueError(...)
too_short(nsamples, text) ==
    spreading_factor(nsamples, Len(payload(text))) < MinSpreadingFactor

\* the loop of lines 71-77: chip i covers samples i*sf+1 .. (i+1)*sf
\* (1-based); what lies beyond the last chip keeps np.zeros_like's 0
watermark_signal(nsamples, text) ==
    LET p  == payload(text)
        sf == spreading_factor(nsamples, Len(p))
        pn == generate_pn_sequence(0, nsamples)
    IN  [n \in 1..nsamples |->
            IF (n - 1) \div sf < Len(p)
            THEN pn[n] * p[((n - 1) \div sf) + 1]
            ELSE 0]

\* np.abs on an int16 array: -32768 has no positive counterpart and stays
np_abs_int16(x) == IF x = Int16Min THEN Int16Min ELSE Abs(x)

\* np.max(np.abs(samples))
np_max_abs(samples) == MaxOf({np_abs_int16(samples[n]) : n \in DOMAIN samples})

\* samples + watermark_signal * alpha * max, times AlphaDen (alpha = 0.01)
scaled_sum(s, e, m) == AlphaDen * s + e * m

\* the clip left out: the sum reaches the int16 conversion unbounded
np_clip_missing(x) == x

\* np.clip(x, -32768, 32767) on the scaled value
np_clip(x) ==
    IF x < AlphaDen * Int16Min THEN AlphaDen * Int16Min
    ELSE IF x > AlphaDen * Int16Max THEN AlphaDen * Int16Max
    ELSE x

\* .astype(np.int16) of an in-range float64: the fraction is dropped
\* (truncation toward zero)
astype_int16(x) ==
    IF x >= 0 THEN x \div AlphaDen ELSE -((-x) \div AlphaDen)

\* lines 83-86
watermarked_samples(samples, text) ==
    LET ws == watermark_signal(Len(samples), text)
        m  == np_max_abs(samples)
    IN  [n \in DOMAIN samples |->
            astype_int16(np_clip(scaled_sum(samples[n], ws[n], m)))]

\* wav_out.setparams(params); wav_out.writeframes(new_frames)
written_wav(w, out) ==
    [sampwidth |-> w.sampwidth, nbytes |-> 2 * Len(out), samples |-> out]

\* the call raises at np.frombuffer (line 46)
EmbedBufferError ==
    /\ embed_result = "pending"
    /\ frombuffer_raises(input_wav)
    /\ embed_result' = "ValueError:buffer"
    /\ UNCHANGED <<input_wav, watermark_text, output_wav>>
    /\ UNCHANGED session_vars

\* the call raises at line 66, before output_wav is opened
EmbedTooShort ==
    /\ embed_result = "pending"
    /\ ~frombuffer_raises(input_wav)
    /\ too_short(Len(samples_of(input_wav)), watermark_text)
    /\ embed_result' = "ValueError:too_short"
    /\ UNCHANGED <<input_wav, watermark_text, output_wav>>
    /\ UNCHANGED session_vars

\* the call runs to line 95
EmbedOk ==
    /\ embed_result = "pending"
    /\ ~frombuffer_raises(input_wav)
    /\ ~too_short(Len(samples_of(input_wav)), watermark_text)
    /\ output_wav' = written_wav(input_wav,
                        watermarked_samples(samples_of(input_wav), watermark_text))
    /\ embed_result' = "ok"
    /\ UNCHANGED <<input_wav, watermark_text>>
    /\ UNCHANGED session_vars

embed_watermark_dsss == EmbedBufferError \/ EmbedTooShort \/ EmbedOk

---------------------------------------------------------------------------
(* Inputs of SpecCodec                                                     *)

Identifiers == 0..MaxId

\* identifiers tried on every input; the others only on the plain inputs
EdgeIdentifiers == {0, 1, 85, 170, 255, 256}

\* byte counts around the capacity threshold of a 9-chip and of a 10-chip
\* payload (100 * chips samples of 2 bytes), odd counts included
ByteCounts ==
    UNION { (2 * (MinSpreadingFactor * chips - LenSlack))
              .. (2 * (MinSpreadingFactor * chips + LenSlack) + 1)
            : chips \in {IdBitWidth + 1, IdBitWidth + 2} }

\* 8-bit, 16-bit and 24-bit PCM
SampleWidths == {1, 2, 3}

FillValues == {0, 1, 50, 70, -70, 3000, 32700, Int16Max, Int16Min}
PeakValues == {0, 100, Int16Max, Int16Min}

\* wave.readframes returns whole frames: nbytes is a multiple of sampwidth
\* (nchannels = 1)
InputWavs ==
    { w \in [sampwidth : SampleWidths, nbytes : ByteCounts,
             fill : FillValues, peak : PeakValues]
        : w.nbytes % w.sampwidth = 0 }

PlainWav(w) == w.sampwidth = 2 /\ w.fill = 3000 /\ w.peak = 0

---------------------------------------------------------------------------
(* Inputs of Spec                                                          *)

Usernames == 1..NumUsernames
Passwords == {"pw1", "pw2"}
FileNames == {"a.mp4"}
Contents == 1..NumContents

\* number of 16-bit samples ffmpeg extracts from the audio track of each
\* uploadable content
VideoAudioLens == <<44100, 500, 900, 899>>
AudioLen(c) == VideoAudioLens[((c - 1) % 4) + 1]

\* no call of process_video_to_bytes is running and no temp file exists
NoRequest == [video |-> "", user_id |-> 0, temp_audio |-> 0,
              watermarked |-> None, mp3 |-> None, processed |-> None,
              failed |-> "", ret |-> None]

PipelineOrder == <<"extract", "embed", "export", "remux", "read">>

---------------------------------------------------------------------------
(* Initial states                                                          *)

InitSession ==
    /\ users = << >>
    /\ logged_in_user = NoUser
    /\ last_uploaded_video = ""
    /\ downloads = << >>
    /\ uploads = << >>
    /\ cache = << >>
    /\ pc = "idle"
    /\ request = NoRequest
    /\ steps = << >>
    /\ outcome = "start"
    /\ failed_keys = {}

NoCall ==
    /\ input_wav = NoFile
    /\ watermark_text = << >>
    /\ output_wav = NoFile
    /\ embed_result = "none"

InitCodec ==
    /\ \E w \in InputWavs, id \in Identifiers :
          /\ id \in EdgeIdentifiers \/ PlainWav(w)
          /\ input_wav = w
          /\ watermark_text = str(id)
    /\ output_wav = NoFile
    /\ embed_result = "pending"
    /\ InitSession

NextCodec == embed_watermark_dsss

SpecCodec == InitCodec /\ [][NextCodec]_vars

---------------------------------------------------------------------------
(* main(): the sidebar                                                     *)

\* user_id = len(st.session_state.users) + 1
new_user_id(table) == Cardinality(DOMAIN table) + 1

\* st.session_state.users[username] = {'password': password, 'id': user_id}
register(table, username, password) ==
    [u \in DOMAIN table \cup {username} |->
        IF u = username
        THEN [password |-> password, id |-> new_user_id(table)]
        ELSE table[u]]

\* Submit with auth_mode "Register", username not yet in users
RegisterNew(username, password) ==
    /\ pc = "idle"
    /\ logged_in_user = NoUser
    /\ username \notin DOMAIN users
    /\ users' = register(users, username, password)
    /\ outcome' = "registered"
    /\ UNCHANGED <<logged_in_user, last_uploaded_video, downloads, uploads,
                   cache, pc, request, steps, failed_keys>>
    /\ UNCHANGED codec_vars

\* Submit with auth_mode "Register", username already in users
RegisterDuplicate(username, password) ==
    /\ pc = "idle"
    /\ logged_in_user = NoUser
    /\ username \in DOMAIN users
    /\ outcome' = "register_dup"
    /\ UNCHANGED <<users, logged_in_user, last_uploaded_video, downloads,
                   uploads, cache, pc, request, steps, failed_keys>>
    /\ UNCHANGED codec_vars

\* username in users and users[username]['password'] == password
credentials_ok(table, username, password) ==
    /\ username \in DOMAIN table
    /\ table[username].password = password

\* Submit with auth_mode "Login", valid credentials
LoginOk(username, password) ==
    /\ pc = "idle"
    /\ logged_in_user = NoUser
    /\ credentials_ok(users, username, password)
    /\ logged_in_user' = username
    /\ outcome' = "logged_in"
    /\ UNCHANGED <<users, last_uploaded_video, downloads, uploads, cache,
                   pc, request, steps, failed_keys>>
    /\ UNCHANGED codec_vars

\* Submit with auth_mode "Login", invalid credentials
LoginInvalid(username, password) ==
    /\ pc = "idle"
    /\ logged_in_user = NoUser
    /\ ~credentials_ok(users, username, password)
    /\ outcome' = "invalid_credentials"
    /\ UNCHANGED <<users, logged_in_user, last_uploaded_video, downloads,
                   uploads, cache, pc, request, steps, failed_keys>>
    /\ UNCHANGED codec_vars

\* the Logout button
Logout ==
    /\ pc = "idle"
    /\ logged_in_user # NoUser
    /\ logged_in_user' = NoUser
    /\ outcome' = "logged_out"
    /\ UNCHANGED <<users, last_uploaded_video, downloads, uploads, cache,
                   pc, request, steps, failed_keys>>
    /\ UNCHANGED codec_vars

---------------------------------------------------------------------------
(* main(): upload, process, download                                       *)

\* user_id = st.session_state.users[st.session_state.logged_in_user]['id']
current_user_id == users[logged_in_user].id

\* the Save Upload button: every file of the folder is removed, then the
\* upload is written under its own name
SaveUpload(filename, content) ==
    /\ pc = "idle"
    /\ logged_in_user # NoUser
    /\ uploads' = [f \in {filename} |-> content]
    /\ last_uploaded_video' = filename
    /\ outcome' = "uploaded"
    /\ UNCHANGED <<users, logged_in_user, downloads, cache, pc, request,
                   steps, failed_keys>>
    /\ UNCHANGED codec_vars

\* the key built from the video name alone
download_key_shared(video, user_id) == <<video, 0>>

\* download_key = f"download_{video}_{user_id}"; video ends in its
\* extension and user_id is all digits, so the string determines the pair
download_key(video, user_id) == <<video, user_id>>

\* @st.cache_data keys a call by its arguments (video_path, user_id)
cache_key(video_path, user_id) == <<video_path, user_id>>

\* if video_bytes: st.session_state[download_key] = video_bytes
store_download(dl, key, video_bytes) ==
    IF video_bytes # None
    THEN [k \in DOMAIN dl \cup {key} |-> IF k = key THEN video_bytes ELSE dl[k]]
    ELSE dl

\* the Process button when st.cache_data holds the call: the stored return
\* value comes back and the body of process_video_to_bytes does not run
ProcessCached(video) ==
    /\ pc = "idle"
    /\ logged_in_user # NoUser
    /\ video \in DOMAIN uploads
    /\ cache_key(video, current_user_id) \in DOMAIN cache
    /\ LET video_bytes == cache[cache_key(video, current_user_id)]
       IN  /\ downloads' = store_download(downloads,
                              download_key(video, current_user_id), video_bytes)
           /\ outcome' = IF video_bytes # None THEN "ready" ELSE "process_failed"
    /\ steps' = << >>
    /\ UNCHANGED <<users, logged_in_user, last_uploaded_video, uploads, cache,
                   pc, request, failed_keys>>
    /\ UNCHANGED codec_vars

\* the Process button on a cache miss: process_video_to_bytes starts
ProcessStart(video) ==
    /\ pc = "idle"
    /\ logged_in_user # NoUser
    /\ video \in DOMAIN uploads
    /\ cache_key(video, current_user_id) \notin DOMAIN cache
    /\ request' = [NoRequest EXCEPT !.video = video, !.user_id = current_user_id]
    /\ steps' = << >>
    /\ pc' = "extract"
    /\ outcome' = "processing"
    /\ UNCHANGED <<users, logged_in_user, last_uploaded_video, downloads,
                   uploads, cache, failed_keys>>
    /\ UNCHANGED codec_vars

\* the step after `step`; an exception leaves the try block for the handlers
next_pc(step, raised) ==
    IF raised THEN "return"
    ELSE CASE step = "extract" -> "embed"
           [] step = "embed"   -> "export"
           [] step = "export"  -> "remux"
           [] step = "remux"   -> "read"
           [] step = "read"    -> "return"

\* a handler that hands back whatever the run had produced so far
except_return_partial(req) ==
    [video |-> 0, audio |-> req.temp_audio, wm |-> req.user_id]

\* both except clauses end in `return None`
except_return(req) == None

\* a step of the try block raised: st.error(...); return None
raise_in(req, step) ==
    [req EXCEPT !.failed = step, !.ret = except_return(req)]

\* 1. extract_audio_ffmpeg(video_path, temp_audio_wav); ffmpeg may fail
StepExtract ==
    /\ pc = "extract"
    /\ steps' = Append(steps, "extract")
    /\ \E raised \in BOOLEAN :
          /\ request' = IF raised THEN raise_in(request, "extract")
                        ELSE [request EXCEPT !.temp_audio = uploads[request.video]]
          /\ pc' = next_pc("extract", raised)
    /\ UNCHANGED <<users, logged_in_user, last_uploaded_video, downloads,
                   uploads, cache, outcome, failed_keys>>
    /\ UNCHANGED codec_vars

\* 2. embed_watermark_dsss(temp_audio_wav, str(user_id), watermarked_audio_wav)
\*    on pcm_s16le audio: it raises exactly when the audio is too short
StepEmbed ==
    /\ pc = "embed"
    /\ steps' = Append(steps, "embed")
    /\ LET raised == too_short(AudioLen(request.temp_audio), str(request.user_id))
       IN  /\ request' = IF raised THEN raise_in(request, "embed")
                         ELSE [request EXCEPT !.watermarked =
                                 [audio |-> request.temp_audio,
                                  wm |-> int(str(request.user_id))]]
           /\ pc' = next_pc("embed", raised)
    /\ UNCHANGED <<users, logged_in_user, last_uploaded_video, downloads,
                   uploads, cache, outcome, failed_keys>>
    /\ UNCHANGED codec_vars

\* 3. AudioSegment.from_wav(...).export(..., format="mp3"); the encoder may fail
StepExport ==
    /\ pc = "export"
    /\ steps' = Append(steps, "export")
    /\ \E raised \in BOOLEAN :
          /\ request' = IF raised THEN raise_in(request, "export")
                        ELSE [request EXCEPT !.mp3 = request.watermarked]
          /\ pc' = next_pc("export", raised)
    /\ UNCHANGED <<users, logged_in_user, last_uploaded_video, downloads,
                   uploads, cache, outcome, failed_keys>>
    /\ UNCHANGED codec_vars

\* 4. insert_audio_ffmpeg(video_path, watermarked_audio_mp3, processed_video_path)
\*    reads video_path again; ffmpeg may fail
StepRemux ==
    /\ pc = "remux"
    /\ steps' = Append(steps, "remux")
    /\ \E raised \in BOOLEAN :
          /\ request' = IF raised THEN raise_in(request, "remux")
                        ELSE [request EXCEPT !.processed =
                                [video |-> uploads[request.video],
                                 audio |-> request.mp3.audio,
                                 wm |-> request.mp3.wm]]
          /\ pc' = next_pc("remux", raised)
    /\ UNCHANGED <<users, logged_in_user, last_uploaded_video, downloads,
                   uploads, cache, outcome, failed_keys>>
    /\ UNCHANGED codec_vars

\* 5. open(processed_video_path, "rb").read(); return video_bytes;
\*    the read may fail
StepRead ==
    /\ pc = "read"
    /\ steps' = Append(steps, "read")
    /\ \E raised \in BOOLEAN :
          /\ request' = IF raised THEN raise_in(request, "read")
                        ELSE [request EXCEPT !.ret = request.processed]
          /\ pc' = next_pc("read", raised)
    /\ UNCHANGED <<users, logged_in_user, last_uploaded_video, downloads,
                   uploads, cache, outcome, failed_keys>>
    /\ UNCHANGED codec_vars

\* process_video_to_bytes returns: st.cache_data stores the return value
\* (None included) under the call's arguments, and main() stores the bytes
\* under download_key when they are truthy
ProcessReturn ==
    /\ pc = "return"
    /\ cache' = [k \in DOMAIN cache \cup {cache_key(request.video, request.user_id)} |->
                    IF k = cache_key(request.video, request.user_id)
                    THEN request.ret ELSE cache[k]]
    /\ downloads' = store_download(downloads,
                        download_key(request.video, request.user_id), request.ret)
    /\ outcome' = IF request.ret # None THEN "ready" ELSE "process_failed"
    /\ failed_keys' = IF request.failed # ""
                      THEN failed_keys \cup {<<request.video, request.user_id>>}
                      ELSE failed_keys
    /\ pc' = "idle"
    /\ request' = NoRequest
    /\ steps' = << >>
    /\ UNCHANGED <<users, logged_in_user, last_uploaded_video, uploads>>
    /\ UNCHANGED codec_vars

\* the download buttons main() renders at the end of a script run
offered_downloads ==
    IF logged_in_user = NoUser THEN {}
    ELSE { video \in DOMAIN uploads :
             download_key(video, current_user_id) \in DOMAIN downloads }

---------------------------------------------------------------------------
(* The session                                                             *)

Init == NoCall /\ InitSession

Next ==
    \/ \E u \in Usernames, p \in Passwords : RegisterNew(u, p)
    \/ \E u \in Usernames, p \in Passwords : RegisterDuplicate(u, p)
    \/ \E u \in Usernames, p \in Passwords : LoginOk(u, p)
    \/ \E u \in Usernames, p \in Passwords : LoginInvalid(u, p)
    \/ Logout
    \/ \E f \in FileNames, c \in Contents : SaveUpload(f, c)
    \/ \E f \in FileNames : ProcessCached(f)
    \/ \E f \in FileNames : ProcessStart(f)
    \/ StepExtract
    \/ StepEmbed
    \/ StepExport
    \/ StepRemux
    \/ StepRead
    \/ ProcessReturn

Spec == Init /\ [][Next]_vars

---------------------------------------------------------------------------
(* Companion decoders described by the specification; src/app.py has none *)

\* sum of buf[n] * pn[n] for n in lo..hi
RECURSIVE correlate(_, _, _, _)
correlate(buf, pn, lo, hi) ==
    IF lo > hi THEN 0 ELSE buf[lo] * pn[lo] + correlate(buf, pn, lo + 1, hi)

\* the bit a correlation's sign stands for
sign_bit(corr) == IF corr > 0 THEN 1 ELSE 0

RECURSIVE bits_value(_)
bits_value(bits) ==
    IF Len(bits) = 0 THEN 0
    ELSE 2 * bits_value(SubSeq(bits, 1, Len(bits) - 1)) + bits[Len(bits)]

\* dsss_decode: regenerate the PN sequence and the spreading factor for a
\* 9-chip payload, correlate each segment, read the signature and the id
dsss_decode(buf) ==
    LET nchips == IdBitWidth + 1
        sf     == spreading_factor(Len(buf), nchips)
        pn     == generate_pn_sequence(0, Len(buf))
        bits   == [i \in 1..nchips |->
                      sign_bit(correlate(buf, pn, (i - 1) * sf + 1, i * sf))]
    IN  [signature |-> bits[1], id |-> bits_value(SubSeq(bits, 2, nchips))]

\* the low bit of a two's-complement sample
low_bit(x) == x % 2

\* lsb_decode: a 16-bit length L from the low bits of the first 16 samples,
\* then L low bits regrouped into bytes, most significant bit first; error
\* is "" when bytes were decoded
lsb_decode(buf) ==
    IF Len(buf) < 16 THEN [error |-> "CapacityError", bytes |-> << >>]
    ELSE LET L == bits_value([i \in 1..16 |-> low_bit(buf[i])])
         IN  IF 16 + L > Len(buf) THEN [error |-> "CapacityError", bytes |-> << >>]
             ELSE IF L % 8 # 0 THEN [error |-> "DecodeError", bytes |-> << >>]
             ELSE [error |-> "",
                   bytes |-> [b \in 1..(L \div 8) |->
                     bits_value([i \in 1..8 |-> low_bit(buf[16 + 8 * (b - 1) + i])])]]

\* the ASCII bytes of a decimal string
ascii_bytes(text) == [i \in 1..Len(text) |-> 48 + text[i]]

---------------------------------------------------------------------------
(* Claims                                                                  *)

\* the largest absolute sample value, as a mathematical integer
TrueMaxAbs(samples) == MaxOf({Abs(samples[n]) : n \in DOMAIN samples})

IsPrefix(s, t) == Len(s) <= Len(t) /\ \A i \in 1..Len(s) : s[i] = t[i]

\* C1: whenever the frames unpack into samples, the call fails with the
\* too-short error exactly when floor(len(samples) / len(payload)) < 100,
\* and a failed call has written no output file.
C1_CapacityCheck ==
    (embed_result # "pending" /\ input_wav.nbytes % 2 = 0) =>
        LET sf == (input_wav.nbytes \div 2) \div Len(payload(watermark_text))
        IN  /\ (embed_result = "ValueError:too_short") <=> (sf < 100)
            /\ (embed_result # "ok") => (output_wav = NoFile)
            /\ (embed_result = "ok") => (output_wav # NoFile)

\* C1 witness: a buffer one sample short of gain 100 was refused
C1_Witness ==
    /\ embed_result = "ValueError:too_short"
    /\ (input_wav.nbytes \div 2) \div Len(payload(watermark_text)) = 99
    /\ output_wav = NoFile

\* C2: for identifiers 0..255 and any 16-bit buffer with spreading factor >= 100,
\* correlating the encoded output against the PN sequence recovers
\* signature bit 1 and the identifier.
C2_DsssRoundTrip ==
    (embed_result = "ok" /\ input_wav.sampwidth = 2 /\ int(watermark_text) <= 255) =>
        /\ dsss_decode(output_wav.samples).signature = 1
        /\ dsss_decode(output_wav.samples).id = int(watermark_text)

\* C3: every encoded sample is within alpha * max(|samples|) + 1 of the
\* original sample and lies in [-32768, 32767].
C3_AmplitudeBound ==
    (embed_result = "ok") =>
        LET s   == samples_of(input_wav)
            out == output_wav.samples
            m   == TrueMaxAbs(s)
        IN  /\ Len(out) = Len(s)
            /\ \A n \in DOMAIN s :
                  /\ 100 * Abs(out[n] - s[n]) <= m + 100
                  /\ out[n] >= -32768
                  /\ out[n] <= 32767

\* C3 witness: a full-scale buffer was encoded; samples were changed and
\* samples were held at the upper limit
C3_Witness ==
    /\ embed_result = "ok"
    /\ input_wav.fill = 32767
    /\ \E n \in DOMAIN output_wav.samples : output_wav.samples[n] < 32767
    /\ \E n \in DOMAIN output_wav.samples :
          /\ n > 1
          /\ watermark_signal(Len(output_wav.samples), watermark_text)[n] = 1
          /\ output_wav.samples[n] = 32767

\* C4: the payload a call builds for an identifier the pipeline passes (ids start
\* at 1) has exactly 9 chips: +1, then the identifier's 8 bits, most
\* significant first, as -1/+1.
C4_PayloadNineChips ==
    (/\ embed_result \in {"ok", "ValueError:too_short"}
     /\ input_wav.sampwidth = 2
     /\ int(watermark_text) >= 1) =>
        LET p  == payload(watermark_text)
            id == int(watermark_text)
        IN  /\ Len(p) = 9
            /\ p[1] = 1
            /\ \A i \in 1..8 : p[i + 1] = 2 * ((id \div (2 ^ (8 - i))) % 2) - 1

\* C5: decoding the program's watermarked 16-bit output with lsb_decode
\* returns the identifier's bytes.
C5_LsbRoundTrip ==
    (embed_result = "ok" /\ input_wav.sampwidth = 2) =>
        /\ lsb_decode(output_wav.samples).error = ""
        /\ lsb_decode(output_wav.samples).bytes = ascii_bytes(watermark_text)

\* C6: the steps run in the order extract, embed, export, remux, read; a
\* failed step is the last one executed and the call returns None; no
\* download is stored for a request whose run failed.
C6_FailFast ==
    /\ IsPrefix(steps, PipelineOrder)
    /\ (pc \notin {"idle", "return"}) =>
          (Len(steps) < Len(PipelineOrder) /\ PipelineOrder[Len(steps) + 1] = pc)
    /\ (request.failed # "") =>
          /\ pc = "return"
          /\ Len(steps) >= 1
          /\ steps[Len(steps)] = request.failed
          /\ request.ret = None
    /\ (pc = "return" /\ request.failed = "") => steps = PipelineOrder
    /\ \A k \in failed_keys : <<k[1], k[2]>> \notin DOMAIN downloads

\* C6 witness: the embed step failed after a successful extraction and the
\* call is about to return
C6_Witness ==
    /\ pc = "return"
    /\ request.failed = "embed"
    /\ steps = <<"extract", "embed">>
    /\ request.ret = None

\* C7: input whose sample width is not 16 bits, or whose byte count is
\* odd, is rejected and no watermarked output is written.
C7_RejectsUnsupported ==
    (embed_result # "pending" /\ (input_wav.sampwidth # 2 \/ input_wav.nbytes % 2 # 0)) =>
        /\ embed_result # "ok"
        /\ output_wav = NoFile

\* C8: every encoded 16-bit sample is samples[n] + 0.01 * max(|samples|) *
\* embed_signal[n], rounded to the nearest integer and saturated, with the
\* true largest absolute value as max(|samples|).
C8_RoundedSaturated ==
    (embed_result = "ok" /\ input_wav.sampwidth = 2) =>
        LET s   == samples_of(input_wav)
            out == output_wav.samples
            m   == TrueMaxAbs(s)
            ws  == watermark_signal(Len(s), watermark_text)
        IN  \A n \in DOMAIN s :
                LET x   == 100 * s[n] + ws[n] * m
                    sat == IF x < -3276800 THEN -3276800
                           ELSE IF x > 3276700 THEN 3276700 ELSE x
                IN  Abs(100 * out[n] - sat) <= 50

\* C9: a download offered for (video, user) was computed from the bytes
\* currently stored under that video's name.
C9_FreshOutput ==
    \A video \in offered_downloads :
        LET b == downloads[<<video, current_user_id>>]
        IN  b.video = uploads[video] /\ b.audio = uploads[video]

\* C10: distinct usernames hold distinct ids, a rejected duplicate
\* registration leaves the user table unchanged, and every download offered
\* to the logged-in user was produced with that user's own id.
C10_IdsAndOwnership ==
    /\ [](\A u, v \in DOMAIN users : u # v => users[u].id # users[v].id)
    /\ [](\A video \in offered_downloads :
             downloads[download_key(video, current_user_id)].wm
                = users[logged_in_user].id)
    /\ [][outcome' = "register_dup" => users' = users]_vars

\* C10 witness: the second registered user is logged in and is offered a
\* download while the first user's download is still in the session
C10_Witness ==
    /\ Cardinality(DOMAIN users) >= 2
    /\ logged_in_user # NoUser
    /\ users[logged_in_user].id = 2
    /\ offered_downloads # {}
    /\ \E k \in DOMAIN downloads : k[2] = 1

===========================================================================
